---- MODULE Spec2Model ----
(***************************************************************************)
(* Model of the sound calculation service of LiveEchoMap                   *)
(* (src/backend/main.py): the calculate_sound request handler, the chunk   *)
(* workers of its process pool, the attenuation functions and the          *)
(* progress endpoint.                                                      *)
(*                                                                         *)
(* Representation.  Coordinates are integer metres.  A distance is kept as *)
(* its square (dist2), so that every comparison the code makes on a        *)
(* distance is exact: distance >= 1 is dist2 >= 1, distance < 0.1 is       *)
(* 100*dist2 < 1.  The distance of a ray intersection from the source is   *)
(* an integer number of tenths of a metre (t = T/10), so that              *)
(* 0.1 < t < distance - 0.1 is  T > 1 /\ (T+1)^2 < 100*dist2.  Sound       *)
(* levels are integers in units of 0.001 dB.                               *)
(***************************************************************************)
EXTENDS Integers, Sequences, FiniteSets, TLC

VARIABLES
    building_mesh,       \* global: the mesh cached by load_model
    cpu_count,           \* mp.cpu_count() of the host
    current_progress,    \* global: the progress dictionary
    progress_data,       \* the last answer of GET /calculation_progress
    pc,                  \* position of the calculate_sound handler
    source_pos, initial_db, grid_size, calc_range,   \* the request
    calculation_points,  \* the generated grid
    chunks,              \* the partition of the grid
    future,              \* state of the future of each chunk
    handled,             \* futures already yielded by as_completed
    results, completed, progress,  \* locals of the collection loop
    response,            \* the returned dictionary
    probe, outcome       \* input and output of a single attenuation call

vars == <<building_mesh, cpu_count, current_progress, progress_data, pc,
          source_pos, initial_db, grid_size, calc_range, calculation_points,
          chunks, future, handled, results, completed, progress, response,
          probe, outcome>>

request_vars == <<source_pos, initial_db, grid_size, calc_range>>
loop_vars == <<results, completed, progress>>
probe_vars == <<probe, outcome>>

-----------------------------------------------------------------------------
(* Bounds of the model.                                                    *)

MaxCpu == 2          \* cpu_count ranges over 1..MaxCpu
MaxGrid == 2         \* grid_size ranges over -1..MaxGrid
MaxRange == 2        \* calc_range ranges over -1..MaxRange
MaxChunks == 4       \* requests with more chunks are not explored
MaxPartPoints == 24  \* partitioning alone: point counts 0..MaxPartPoints
MaxPartCpu == 3      \* partitioning alone: cpu_count 1..MaxPartCpu
MaxHitDist == 10     \* attenuation alone: intersections at 0..MaxHitDist tenths
MaxProbeDist == 2    \* attenuation alone: target at 0..MaxProbeDist metres
MaxMult == 2         \* attenuation alone: coincident faces per intersection

GridSizes == -1..MaxGrid
CalcRanges == -1..MaxRange
Sources == {<<0, 0, 0>>, <<3, 1, -2>>}
InitialDbs == {-5000, 20000, 100000}

-----------------------------------------------------------------------------
(* Arithmetic helpers.                                                     *)

Max(a, b) == IF a >= b THEN a ELSE b
Min(a, b) == IF a <= b THEN a ELSE b
Abs(a) == IF a >= 0 THEN a ELSE -a

\* int(a / b) of Python for integers a, b with b # 0: true division, then
\* truncation toward zero.
IntTrunc(a, b) ==
    IF (a >= 0) = (b > 0) THEN Abs(a) \div Abs(b) ELSE -(Abs(a) \div Abs(b))

\* floor(sqrt(n)) for n >= 0.
ISqrt(n) == CHOOSE r \in 0..n : r * r <= n /\ (r + 1) * (r + 1) > n

\* round(1000 * log10(n)) for n in 1..36.
Log10Milli ==
    <<0, 301, 477, 602, 699, 778, 845, 903, 954, 1000, 1041, 1079, 1114,
      1146, 1176, 1204, 1230, 1255, 1279, 1301, 1322, 1342, 1362, 1380,
      1398, 1415, 1431, 1447, 1462, 1477, 1491, 1505, 1519, 1531, 1544,
      1556>>

Dist2(p, q) ==
    (p[1] - q[1]) * (p[1] - q[1]) + (p[2] - q[2]) * (p[2] - q[2])
        + (p[3] - q[3]) * (p[3] - q[3])

-----------------------------------------------------------------------------
(* The mesh and its ray query.  A loaded mesh is abstracted by what its    *)
(* ray query answers: the distances from the source (in tenths of a metre) *)
(* of the intersection points it returns, one entry per intersected face,  *)
(* and the rays for which the query raises.                                *)

NoMesh == [loaded |-> FALSE, hit_distances |-> <<>>, raises |-> "never"]

LoadedMesh(hits, raises) ==
    [loaded |-> TRUE, hit_distances |-> hits, raises |-> raises]

Meshes ==
    { NoMesh,
      LoadedMesh(<<>>, "never"),
      LoadedMesh(<<0, 1, 5, 9, 13, 14, 18, 19, 25>>, "never"),
      LoadedMesh(<<0, 1, 5, 9, 13, 14, 18, 19, 25>>, "west") }

\* mesh.ray.intersects_location(ray_origins=[source_pos], ...): either
\* raises or returns the intersection locations.
intersects_location(mesh, src, tgt) ==
    [raised |-> \/ mesh.raises = "always"
                \/ mesh.raises = "west" /\ tgt[1] < src[1],
     locations |-> mesh.hit_distances]

-----------------------------------------------------------------------------
(* Attenuation (pure functions).                                           *)

\* Mutant: the bounds of the valid interval are inclusive.
ValidIntersectionsInclusive(locations, dist2) ==
    Len(SelectSeq(locations,
            LAMBDA t : t >= 1 /\ (t + 1) * (t + 1) <= 100 * dist2))

\* The loop counting the valid intersections of calculate_fast_obstruction.
ValidIntersections(locations, dist2) ==
    Len(SelectSeq(locations,
            LAMBDA t : t > 1 /\ (t + 1) * (t + 1) < 100 * dist2))

\* Mutant: the tier boundaries are exclusive (< 2, < 4).
ObstructionTierExclusive(valid_intersections) ==
    IF valid_intersections = 0 THEN 0
    ELSE IF valid_intersections < 2 THEN 15
    ELSE IF valid_intersections < 4 THEN 25
    ELSE 35

\* The tiering of calculate_fast_obstruction, in dB.
ObstructionTier(valid_intersections) ==
    IF valid_intersections = 0 THEN 0
    ELSE IF valid_intersections <= 2 THEN 15
    ELSE IF valid_intersections <= 4 THEN 25
    ELSE 35

\* Mutant: a failed ray query is counted as a light obstruction.
FastObstructionCountsRayError(src, tgt, mesh) ==
    LET dist2 == Dist2(tgt, src)
        q == intersects_location(mesh, src, tgt)
        n == ValidIntersections(q.locations, dist2)
    IN  IF dist2 = 0
          THEN [loss |-> 0, queried |-> FALSE, valid |-> 0]
        ELSE IF q.raised
          THEN [loss |-> 15, queried |-> TRUE, valid |-> 0]
        ELSE [loss |-> ObstructionTier(n), queried |-> TRUE, valid |-> n]

\* calculate_fast_obstruction: the loss in dB, whether the mesh was
\* queried, and the number of valid intersections counted.
calculate_fast_obstruction(src, tgt, mesh) ==
    LET dist2 == Dist2(tgt, src)
        q == intersects_location(mesh, src, tgt)
        n == ValidIntersections(q.locations, dist2)
    IN  IF dist2 = 0
          THEN [loss |-> 0, queried |-> FALSE, valid |-> 0]
        ELSE IF q.raised
          THEN [loss |-> 0, queried |-> TRUE, valid |-> 0]
        ELSE [loss |-> ObstructionTier(n), queried |-> TRUE, valid |-> n]

\* 20 * log10(distance), in 0.001 dB.
DistanceLoss(dist2) == 10 * Log10Milli[dist2]

\* distance * 0.001 dB, in 0.001 dB.
AirAbsorption(dist2) == ISqrt(dist2)

calculate_distance_only_attenuation(src, tgt, init_db) ==
    LET dist2 == Dist2(tgt, src)
    IN  IF 100 * dist2 < 1 THEN init_db
        ELSE Max(init_db - DistanceLoss(dist2) - AirAbsorption(dist2), 0)

calculate_fast_sound_attenuation(src, tgt, init_db, mesh) ==
    LET dist2 == Dist2(tgt, src)
    IN  IF 100 * dist2 < 1 THEN init_db
        ELSE Max(init_db - DistanceLoss(dist2)
                    - 1000 * calculate_fast_obstruction(src, tgt, mesh).loss
                    - AirAbsorption(dist2), 0)

-----------------------------------------------------------------------------
(* Grid generation and partitioning (calculate_sound).                     *)

\* Mutant: the circle test is strict.
KeepPointStrict(src, x, z, range) ==
    /\ range >= 0
    /\ (x - src[1]) * (x - src[1]) + (z - src[3]) * (z - src[3])
          < range * range
    /\ Dist2(<<x, src[2], z>>, src) >= 1

\* Mutant: the test distance >= 1 is missing.
KeepPointNearField(src, x, z, range) ==
    /\ range >= 0
    /\ (x - src[1]) * (x - src[1]) + (z - src[3]) * (z - src[3])
          <= range * range

\* The test of the double loop: inside the circle, and not at the source.
KeepPoint(src, x, z, range) ==
    /\ range >= 0
    /\ (x - src[1]) * (x - src[1]) + (z - src[3]) * (z - src[3])
          <= range * range
    /\ Dist2(<<x, src[2], z>>, src) >= 1

\* The double loop over x_step and z_step, for grid # 0.
GenerateGrid(src, grid, range) ==
    LET steps == IntTrunc(range, grid)
        n == IF steps >= 0 THEN 2 * steps + 1 ELSE 0
        cand == [k \in 1..(n * n) |->
                    LET x == src[1] + (((k - 1) \div n) - steps) * grid
                        z == src[3] + (((k - 1) % n) - steps) * grid
                    IN  <<x, src[2], z, Dist2(<<x, src[2], z>>, src)>>]
    IN  SelectSeq(cand, LAMBDA p : KeepPoint(src, p[1], p[3], range))

ChunkSize(total_points, cpus) == Max(1, total_points \div (cpus * 2))

\* Mutant: the number of chunks rounds down, losing a shorter last chunk.
MakeChunksDropTail(points, cpus) ==
    LET total_points == Len(points)
        chunk_size == ChunkSize(total_points, cpus)
        n == total_points \div chunk_size
    IN  [c \in 1..n |->
            SubSeq(points, (c - 1) * chunk_size + 1, c * chunk_size)]

MakeChunks(points, cpus) ==
    LET total_points == Len(points)
        chunk_size == ChunkSize(total_points, cpus)
        n == (total_points + chunk_size - 1) \div chunk_size
    IN  [c \in 1..n |->
            SubSeq(points, (c - 1) * chunk_size + 1,
                   Min(c * chunk_size, total_points))]

\* process_chunk: one record per point, in the order of the points.
process_chunk(points, src, init_db, mesh) ==
    [k \in 1..Len(points) |->
        LET p == points[k]
            tgt == <<p[1], p[2], p[3]>>
        IN  [x |-> p[1], y |-> p[2], z |-> p[3],
             db |-> IF mesh.loaded
                      THEN calculate_fast_sound_attenuation(src, tgt, init_db, mesh)
                      ELSE calculate_distance_only_attenuation(src, tgt, init_db),
             distance |-> p[4]]]

-----------------------------------------------------------------------------
(* The service.                                                            *)

IdleProgress ==
    [total |-> 0, completed |-> 0, percentage |-> 0, status |-> "idle",
     start_time |-> "None"]

NoProbe == [src |-> <<0, 0, 0>>, tgt |-> <<0, 0, 0>>, init_db |-> 0]

Init ==
    /\ building_mesh \in Meshes
    /\ cpu_count \in 1..MaxCpu
    /\ current_progress = IdleProgress
    /\ progress_data = <<>>
    /\ pc = "idle"
    /\ source_pos = <<0, 0, 0>>
    /\ initial_db = 0
    /\ grid_size = 40
    /\ calc_range = 2000
    /\ calculation_points = <<>>
    /\ chunks = <<>>
    /\ future = <<>>
    /\ handled = {}
    /\ results = <<>>
    /\ completed = 0
    /\ progress = <<>>
    /\ response = <<>>
    /\ probe = NoProbe
    /\ outcome = <<>>

\* POST /calculate_sound/, up to the submission of the chunks.  A grid_size
\* of 0 raises ZeroDivisionError at steps = int(calc_range / grid_size).
StartRequest(src, db, grid, range) ==
    /\ pc = "idle"
    /\ source_pos' = src
    /\ initial_db' = db
    /\ grid_size' = grid
    /\ calc_range' = range
    /\ handled' = {}
    /\ results' = <<>>
    /\ completed' = 0
    /\ progress' = <<>>
    /\ response' = <<>>
    /\ IF grid = 0
         THEN /\ pc' = "raised"
              /\ calculation_points' = <<>>
              /\ chunks' = <<>>
              /\ future' = <<>>
         ELSE LET points == GenerateGrid(src, grid, range)
                  parts == MakeChunks(points, cpu_count)
              IN  /\ Len(parts) <= MaxChunks
                  /\ pc' = "collecting"
                  /\ calculation_points' = points
                  /\ chunks' = parts
                  /\ future' = [k \in 1..Len(parts) |->
                                   [state |-> "running", value |-> <<>>]]
    /\ UNCHANGED <<building_mesh, cpu_count, current_progress, progress_data,
                   probe_vars>>

\* A worker returns from process_chunk.
WorkerReturn(k) ==
    /\ pc = "collecting"
    /\ k \in DOMAIN future
    /\ future[k].state = "running"
    /\ future' = [future EXCEPT ![k] =
                    [state |-> "result",
                     value |-> process_chunk(chunks[k], source_pos, initial_db,
                                             building_mesh)]]
    /\ UNCHANGED <<building_mesh, cpu_count, current_progress, progress_data,
                   pc, request_vars, calculation_points, chunks, handled,
                   loop_vars, response, probe_vars>>

\* A chunk fails: the worker raises (mesh reconstruction, memory) or dies.
WorkerRaise(k) ==
    /\ pc = "collecting"
    /\ k \in DOMAIN future
    /\ future[k].state = "running"
    /\ future' = [future EXCEPT ![k] = [state |-> "exception", value |-> <<>>]]
    /\ UNCHANGED <<building_mesh, cpu_count, current_progress, progress_data,
                   pc, request_vars, calculation_points, chunks, handled,
                   loop_vars, response, probe_vars>>

\* (completed / total_points) * 100, as an exact fraction.
Percentage(done, total_points) == [num |-> done * 100, den |-> total_points]

\* Mutant: completed counts chunks instead of points.
AccumulateCountsChunks(chunk_results) ==
    /\ results' = results \o chunk_results
    /\ completed' = completed + 1
    /\ progress' = <<Percentage(completed + 1, Len(calculation_points))>>

\* Mutant: the chunk's results are put in front of the accumulated ones.
AccumulatePrepends(chunk_results) ==
    /\ results' = chunk_results \o results
    /\ completed' = completed + Len(chunk_results)
    /\ progress' = <<Percentage(completed + Len(chunk_results),
                                Len(calculation_points))>>

\* The update of the loop's locals for a chunk that returned.
Accumulate(chunk_results) ==
    /\ results' = results \o chunk_results
    /\ completed' = completed + Len(chunk_results)
    /\ progress' = <<Percentage(completed + Len(chunk_results),
                                Len(calculation_points))>>

\* Mutant: the loop has no except clause and the exception escapes.
HandleFailurePropagates ==
    /\ pc' = "raised"
    /\ UNCHANGED loop_vars

\* What the loop does with a future that raised: the except clause logs.
HandleFailure ==
    /\ pc' = pc
    /\ UNCHANGED loop_vars

\* One iteration of "for future in as_completed(future_to_chunk)".
Collect(k) ==
    /\ pc = "collecting"
    /\ k \in DOMAIN future
    /\ k \notin handled
    /\ future[k].state # "running"
    /\ handled' = handled \cup {k}
    /\ IF future[k].state = "result"
         THEN Accumulate(future[k].value) /\ pc' = pc
         ELSE HandleFailure
    /\ UNCHANGED <<building_mesh, cpu_count, current_progress, progress_data,
                   request_vars, calculation_points, chunks, future, response,
                   probe_vars>>

\* Mutant: the handler gives up on futures that are still running.
ReturnOnTimeout ==
    /\ pc = "collecting"
    /\ \A k \in DOMAIN future : k \in handled \/ future[k].state = "running"
    /\ pc' = "returned"
    /\ response' = <<[results |-> results,
                      source_pos |-> source_pos,
                      initial_db |-> initial_db,
                      grid_size |-> grid_size,
                      calc_range |-> calc_range,
                      points_processed |-> Len(results)]>>
    /\ UNCHANGED <<building_mesh, cpu_count, current_progress, progress_data,
                   request_vars, calculation_points, chunks, future, handled,
                   loop_vars, response, probe_vars>>

\* The loop and the executor's with block end; the handler returns.
Return ==
    /\ pc = "collecting"
    /\ handled = DOMAIN future
    /\ pc' = "returned"
    /\ response' = <<[results |-> results,
                      source_pos |-> source_pos,
                      initial_db |-> initial_db,
                      grid_size |-> grid_size,
                      calc_range |-> calc_range,
                      points_processed |-> Len(results)]>>
    /\ UNCHANGED <<building_mesh, cpu_count, current_progress, progress_data,
                   request_vars, calculation_points, chunks, future, handled,
                   loop_vars, probe_vars>>

\* The handler's frame is gone: the response (or the error) has been sent
\* and the locals of the request are discarded.
FinishRequest ==
    /\ pc \in {"returned", "raised"}
    /\ pc' = "idle"
    /\ source_pos' = <<0, 0, 0>>
    /\ initial_db' = 0
    /\ grid_size' = 40
    /\ calc_range' = 2000
    /\ calculation_points' = <<>>
    /\ chunks' = <<>>
    /\ future' = <<>>
    /\ handled' = {}
    /\ results' = <<>>
    /\ completed' = 0
    /\ progress' = <<>>
    /\ response' = <<>>
    /\ UNCHANGED <<building_mesh, cpu_count, current_progress, progress_data,
                   probe_vars>>

\* GET /calculation_progress.  The handler of calculate_sound never awaits,
\* so the event loop serves this query only between requests.
GetProgress ==
    /\ pc # "collecting"
    /\ progress_data' =
          <<[total |-> current_progress.total,
             completed |-> current_progress.completed,
             percentage |-> current_progress.percentage,
             status |-> current_progress.status,
             start_time |-> current_progress.start_time,
             elapsed_time |-> 0,
             estimated_remaining_time |-> "None"]>>
    /\ UNCHANGED <<building_mesh, cpu_count, current_progress, pc,
                   request_vars, calculation_points, chunks, future, handled,
                   loop_vars, response, probe_vars>>

Next ==
    \/ \E src \in Sources, db \in InitialDbs, grid \in GridSizes,
          range \in CalcRanges : StartRequest(src, db, grid, range)
    \/ \E k \in 1..MaxChunks : WorkerReturn(k)
    \/ \E k \in 1..MaxChunks : WorkerRaise(k)
    \/ \E k \in 1..MaxChunks : Collect(k)
    \/ Return
    \/ FinishRequest
    \/ GetProgress

Spec == Init /\ [][Next]_vars

-----------------------------------------------------------------------------
(* Partitioning alone: MakeChunks on point lists of every length.          *)

\* A list of n distinct points (on the x axis, one metre apart).
LinePoints(n) == [k \in 1..n |-> <<k, 0, 0, k * k>>]

InitPartition ==
    /\ building_mesh = NoMesh
    /\ cpu_count \in 1..MaxPartCpu
    /\ current_progress = IdleProgress
    /\ progress_data = <<>>
    /\ pc = "partition"
    /\ source_pos = <<0, 0, 0>>
    /\ initial_db = 0
    /\ grid_size = 40
    /\ calc_range = 2000
    /\ calculation_points \in {LinePoints(n) : n \in 0..MaxPartPoints}
    /\ chunks = <<>>
    /\ future = <<>>
    /\ handled = {}
    /\ results = <<>>
    /\ completed = 0
    /\ progress = <<>>
    /\ response = <<>>
    /\ probe = NoProbe
    /\ outcome = <<>>

\* chunk_size and chunks of calculate_sound.
PartitionPoints ==
    /\ pc = "partition"
    /\ pc' = "partitioned"
    /\ chunks' = MakeChunks(calculation_points, cpu_count)
    /\ UNCHANGED <<building_mesh, cpu_count, current_progress, progress_data,
                   request_vars, calculation_points, future, handled,
                   loop_vars, response, probe_vars>>

SpecPartition == InitPartition /\ [][PartitionPoints]_vars

-----------------------------------------------------------------------------
(* The attenuation functions alone, on one source-target pair.             *)

\* The k-th smallest element of a finite set of integers.
KthSmallest(S, k) == CHOOSE x \in S : Cardinality({y \in S : y < x}) = k - 1

\* The elements of S in ascending order, each repeated mult times.
HitSeq(S, mult) ==
    [i \in 1..(mult * Cardinality(S)) |-> KthSmallest(S, ((i - 1) \div mult) + 1)]

ProbeMeshes ==
    {NoMesh, LoadedMesh(<<>>, "never"), LoadedMesh(<<>>, "always")}
        \cup {LoadedMesh(HitSeq(S, m), "never") :
                 S \in (SUBSET (0..MaxHitDist)) \ {{}}, m \in 1..MaxMult}

InitProbe ==
    /\ building_mesh \in ProbeMeshes
    /\ cpu_count = 1
    /\ current_progress = IdleProgress
    /\ progress_data = <<>>
    /\ pc = "probe"
    /\ source_pos = <<0, 0, 0>>
    /\ initial_db = 0
    /\ grid_size = 40
    /\ calc_range = 2000
    /\ calculation_points = <<>>
    /\ chunks = <<>>
    /\ future = <<>>
    /\ handled = {}
    /\ results = <<>>
    /\ completed = 0
    /\ progress = <<>>
    /\ response = <<>>
    /\ probe \in [src : {<<0, 0, 0>>},
                  tgt : {<<x, 0, 0>> : x \in 0..MaxProbeDist},
                  init_db : InitialDbs]
    /\ outcome = <<>>

\* One evaluation of the attenuation functions.
ApplyAttenuation ==
    /\ pc = "probe"
    /\ pc' = "probed"
    /\ outcome' =
          <<[obstruction |->
                 calculate_fast_obstruction(probe.src, probe.tgt, building_mesh),
             db_mesh |->
                 calculate_fast_sound_attenuation(probe.src, probe.tgt,
                                                  probe.init_db, building_mesh),
             db_only |->
                 calculate_distance_only_attenuation(probe.src, probe.tgt,
                                                     probe.init_db)]>>
    /\ UNCHANGED <<building_mesh, cpu_count, current_progress, progress_data,
                   request_vars, calculation_points, chunks, future, handled,
                   loop_vars, response, probe>>

SpecProbe == InitProbe /\ [][ApplyAttenuation]_vars

-----------------------------------------------------------------------------
(* Properties.                                                             *)

\* The chunks whose future raised.
Failed == {k \in DOMAIN future : future[k].state = "exception"}

\* How many records of a result list are at the position of point p.
RecordsAt(list, p) ==
    Cardinality({i \in 1..Len(list) :
                    list[i].x = p[1] /\ list[i].y = p[2] /\ list[i].z = p[3]})

\* C1: when exactly one chunk raised and every future has been collected,
\* the handler has not raised, results holds total_points minus the failed
\* chunk's size records: one record for each point of every other chunk,
\* none for the points of the failed chunk; every sibling future ended
\* with its result, and the response returns exactly these results.
C1_PartialFailure ==
    \A f \in DOMAIN future :
        (Failed = {f} /\ handled = DOMAIN future) =>
            /\ pc \in {"collecting", "returned"}
            /\ Len(results) = Len(calculation_points) - Len(chunks[f])
            /\ \A k \in DOMAIN future \ {f} :
                  /\ future[k].state = "result"
                  /\ \A i \in 1..Len(chunks[k]) :
                        RecordsAt(results, chunks[k][i]) = 1
            /\ \A i \in 1..Len(chunks[f]) : RecordsAt(results, chunks[f][i]) = 0
            /\ pc = "returned" =>
                  /\ response[1].results = results
                  /\ response[1].points_processed = Len(results)

\* C1 witness: a returned request of four chunks of which exactly one,
\* not the last one submitted, failed.
C1_Witness ==
    /\ pc = "returned"
    /\ Len(chunks) = 4
    /\ Cardinality(Failed) = 1
    /\ 4 \notin Failed
    /\ Len(results) = 9

\* C2: the global progress state follows a request that has grid points:
\* while the request runs it is "running" with the request's total and the
\* loop's completed count, and once the request has returned it is
\* "completed".
C2_ProgressReflectsRequest ==
    Len(calculation_points) > 0 =>
        /\ pc = "collecting" =>
              /\ current_progress.status = "running"
              /\ current_progress.total = Len(calculation_points)
              /\ current_progress.completed = completed
        /\ pc = "returned" =>
              /\ current_progress.status = "completed"
              /\ current_progress.total = Len(calculation_points)
              /\ current_progress.completed = completed

\* The concatenation of a sequence of sequences, in index order.
RECURSIVE Concat(_)
Concat(seqs) ==
    IF seqs = <<>> THEN <<>>
    ELSE Concat(SubSeq(seqs, 1, Len(seqs) - 1)) \o seqs[Len(seqs)]

\* C3: the chunks are non-empty slices whose concatenation in index order
\* is the point list; with chunk_size = max(1, total div (2*P)) every chunk
\* but the last has chunk_size points and the last at most chunk_size; an
\* empty point list has no chunks.
C3_Partition ==
    pc = "partitioned" =>
        LET total == Len(calculation_points)
            half == total \div (2 * cpu_count)
            size == IF half >= 1 THEN half ELSE 1
        IN  /\ Concat(chunks) = calculation_points
            /\ \A c \in DOMAIN chunks : Len(chunks[c]) >= 1
            /\ \A c \in DOMAIN chunks :
                  IF c < Len(chunks) THEN Len(chunks[c]) = size
                  ELSE Len(chunks[c]) <= size
            /\ total = 0 => chunks = <<>>

\* C3 witness: a partition of several chunks whose last one is shorter.
C3_Witness ==
    /\ pc = "partitioned"
    /\ Len(chunks) >= 3
    /\ Len(chunks[Len(chunks)]) < Len(chunks[1])
    /\ Len(chunks[1]) >= 2

\* C4: in every state of a request the loop's completed count is at most
\* the number of grid points and equals the number of records in results;
\* the percentage, once computed, is 100*completed/total with total > 0;
\* and when the request has returned, completed equals the total exactly
\* when no chunk failed.
C4_ProgressInvariant ==
    pc \in {"collecting", "returned"} =>
        LET total == Len(calculation_points)
        IN  /\ completed <= total
            /\ completed = Len(results)
            /\ progress # <<>> =>
                  /\ total > 0
                  /\ progress[1].den = total
                  /\ progress[1].num * total = 100 * completed * progress[1].den
            /\ pc = "returned" => ((completed = total) <=> (Failed = {}))

\* C4 witness: a request in progress in which a failed chunk and a
\* successful chunk have been collected and others are outstanding.
C4_Witness ==
    /\ pc = "collecting"
    /\ progress # <<>>
    /\ 0 < completed
    /\ completed < Len(calculation_points)
    /\ Failed \cap handled # {}
    /\ handled # DOMAIN future

\* C5: a request whose grid_size or calc_range is not positive is refused:
\* the handler does not return and there is no response for it.
C5_ConfigErrorsRejected ==
    (grid_size <= 0 \/ calc_range <= 0) => (pc # "returned" /\ response = <<>>)

\* What the code does guarantee for such a request: no point is generated
\* and no chunk is submitted.
NonPositiveConfigHasNoPoints ==
    (pc # "idle" /\ (grid_size <= 0 \/ calc_range <= 0)) =>
        (calculation_points = <<>> /\ chunks = <<>> /\ future = <<>>)

\* floor(a / b) for b # 0.
FloorDiv(a, b) == IF b > 0 THEN a \div b ELSE (-a) \div (-b)

\* The lattice offsets of a request: [-steps, steps] squared, with
\* steps = floor(calc_range / grid_size).
Offsets ==
    LET steps == FloorDiv(calc_range, grid_size)
    IN  (-steps..steps) \X (-steps..steps)

\* The position at lattice offset o.
PointAt(o) ==
    <<source_pos[1] + o[1] * grid_size, source_pos[2],
      source_pos[3] + o[2] * grid_size>>

\* The lattice offset of the k-th generated point along axis a (1: x, 3: z).
OffsetOf(k, a) ==
    IntTrunc(calculation_points[k][a] - source_pos[a], grid_size)

\* C6: a lattice offset yields a calculation point iff its planar distance
\* is at most the radius and its distance from the source at least 1;
\* every generated point is such a lattice point and carries its distance
\* from the source; the source itself is not generated; the points are in
\* the order of the double loop (x offset outer, z offset inner).
C6_GridMembership ==
    pc \in {"collecting", "returned"} =>
        /\ \A o \in Offsets :
              (\E k \in DOMAIN calculation_points :
                   SubSeq(calculation_points[k], 1, 3) = PointAt(o))
              <=> /\ calc_range >= 0
                  /\ (o[1] * grid_size) * (o[1] * grid_size)
                        + (o[2] * grid_size) * (o[2] * grid_size)
                        <= calc_range * calc_range
                  /\ Dist2(PointAt(o), source_pos) >= 1
        /\ \A k \in DOMAIN calculation_points :
              /\ \E o \in Offsets :
                    SubSeq(calculation_points[k], 1, 3) = PointAt(o)
              /\ calculation_points[k][4]
                    = Dist2(calculation_points[k], source_pos)
              /\ calculation_points[k][4] <= calc_range * calc_range
              /\ SubSeq(calculation_points[k], 1, 3) # source_pos
        /\ \A k, l \in DOMAIN calculation_points :
              k < l =>
                 \/ OffsetOf(k, 1) < OffsetOf(l, 1)
                 \/ /\ OffsetOf(k, 1) = OffsetOf(l, 1)
                    /\ OffsetOf(k, 3) < OffsetOf(l, 3)

\* C6 witness: a grid of spacing 1 and radius 2 holding the point at planar
\* distance exactly 2 east of the source.
C6_Witness ==
    /\ pc = "collecting"
    /\ grid_size = 1
    /\ calc_range = 2
    /\ \E k \in DOMAIN calculation_points :
          calculation_points[k]
             = <<source_pos[1] + 2, source_pos[2], source_pos[3], 4>>

\* Every record a worker returned, the loop accumulated or the handler
\* returned.
AllRecords ==
    {results[i] : i \in DOMAIN results}
        \cup UNION {{future[k].value[i] : i \in DOMAIN future[k].value} :
                       k \in DOMAIN future}
        \cup (IF response = <<>> THEN {}
              ELSE {response[1].results[i] : i \in DOMAIN response[1].results})

\* C7: every record has db >= 0, and every generated point is at distance
\* >= 1 from the source, so that the near-field branch (distance < 0.1),
\* which returns initial_db as it is, is not taken for it.
C7_LevelsNonNegative ==
    /\ \A r \in AllRecords : r.db >= 0
    /\ \A k \in DOMAIN calculation_points :
          /\ calculation_points[k][4] >= 1
          /\ ~(100 * Dist2(calculation_points[k], source_pos) < 1)

\* C7 witness: a returned request with a negative initial level against a
\* loaded mesh, every chunk of which returned.
C7_Witness ==
    /\ pc = "returned"
    /\ initial_db < 0
    /\ building_mesh.loaded
    /\ Len(results) = 12
    /\ \A i \in DOMAIN response[1].results : response[1].results[i].db = 0

\* C8: for a target d metres east of the source, the valid intersections
\* are exactly those at distance t with 0.1 < t < d - 0.1 (t in tenths:
\* 1 < t < 10d - 1); when source and target coincide the result is zero
\* and the mesh is not queried.
C8_EpsilonPolicy ==
    pc = "probed" =>
        LET o == outcome[1].obstruction
            d == probe.tgt[1] - probe.src[1]
            hits == building_mesh.hit_distances
        IN  /\ d = 0 => (~o.queried /\ o.loss = 0 /\ o.valid = 0)
            /\ (d > 0 /\ building_mesh.raises = "never") =>
                  /\ o.queried
                  /\ o.valid = Cardinality({i \in DOMAIN hits :
                                    1 < hits[i] /\ hits[i] < 10 * d - 1})

\* C8 witness: a target at 1 m and a mesh crossed at the source, at 0.1 m,
\* at 0.2 m, at 0.8 m, at 0.9 m and at the target; two crossings are valid.
C8_Witness ==
    /\ pc = "probed"
    /\ probe.tgt = <<1, 0, 0>>
    /\ building_mesh.hit_distances = <<0, 1, 2, 8, 9, 10>>
    /\ outcome[1].obstruction.valid = 2

\* The level without obstruction of the k-th point of chunk c.
OpenLevel(c, k) ==
    LET p == chunks[c][k]
        open == initial_db - 10 * Log10Milli[p[4]] - ISqrt(p[4])
    IN  IF open >= 0 THEN open ELSE 0

\* C9: a chunk that returned has one record per point, in the order of its
\* points, and the record of a point whose ray query raised carries the
\* level without obstruction.
C9_RayFailureDegrades ==
    \A c \in DOMAIN future :
        future[c].state = "result" =>
            /\ Len(future[c].value) = Len(chunks[c])
            /\ \A k \in DOMAIN chunks[c] :
                  /\ future[c].value[k].x = chunks[c][k][1]
                  /\ future[c].value[k].y = chunks[c][k][2]
                  /\ future[c].value[k].z = chunks[c][k][3]
                  /\ (building_mesh.loaded
                        /\ intersects_location(building_mesh, source_pos,
                                               chunks[c][k]).raised)
                       => future[c].value[k].db = OpenLevel(c, k)

\* C9 witness: a chunk that returned in which the ray query raised for one
\* point and not for a later one, the first with a positive level.
C9_Witness ==
    \E c \in DOMAIN future :
        /\ future[c].state = "result"
        /\ \E k, l \in DOMAIN chunks[c] :
              /\ k < l
              /\ intersects_location(building_mesh, source_pos,
                                     chunks[c][k]).raised
              /\ ~intersects_location(building_mesh, source_pos,
                                      chunks[c][l]).raised
              /\ future[c].value[k].db > 0
              /\ future[c].value[l].db < OpenLevel(c, l)

\* C10: the obstruction loss is 0, 15, 25, 35 dB for 0, 1-2, 3-4 and 5 or
\* more valid intersections; it is non-decreasing in the count; and a level
\* with 3 valid intersections that is not floored is 25 dB below the level
\* without obstruction.
C10_ObstructionTiers ==
    (pc = "probed" /\ outcome[1].obstruction.queried
        /\ building_mesh.raises = "never") =>
        LET n == outcome[1].obstruction.valid
            loss == outcome[1].obstruction.loss
        IN  /\ n = 0 => loss = 0
            /\ n \in {1, 2} => loss = 15
            /\ n \in {3, 4} => loss = 25
            /\ n >= 5 => loss = 35
            /\ loss \in {0, 15, 25, 35}
            /\ \A m \in 0..n : ObstructionTier(m) <= loss
            /\ (n = 3 /\ building_mesh.loaded /\ outcome[1].db_mesh > 0) =>
                  outcome[1].db_mesh = outcome[1].db_only - 25000

\* C10 witness: three valid intersections and a level above the floor.
C10_Witness ==
    /\ pc = "probed"
    /\ outcome[1].obstruction.valid = 3
    /\ outcome[1].db_mesh > 0
    /\ outcome[1].db_mesh = outcome[1].db_only - 25000

\* The position of a record, and of a point.
PositionOf(r) == <<r.x, r.y, r.z>>
PointPosition(p) == <<p[1], p[2], p[3]>>

\* The chunks that returned and have been collected.
Appended == {k \in handled : future[k].state = "result"}

\* The orders in which the chunks of a set can be taken.
OrdersOf(S) ==
    {o \in [1..Cardinality(S) -> S] :
        \A i, j \in 1..Cardinality(S) : i # j => o[i] # o[j]}

\* The positions of the points of the chunks taken in order o.
BlocksInOrder(o) ==
    Concat([i \in DOMAIN o |->
               [j \in DOMAIN chunks[o[i]] |-> PointPosition(chunks[o[i]][j])]])

\* results is made of one contiguous block per collected successful chunk,
\* each block holding the chunk's points in their input order.
ResultsAreBlocks ==
    \E o \in OrdersOf(Appended) :
        [i \in DOMAIN results |-> PositionOf(results[i])] = BlocksInOrder(o)

\* A step in which the loop receives future k leaves the accumulated
\* results in place and appends the chunk's records, in the order of the
\* chunk's points, when the chunk returned; nothing when it raised.
AppendsOnCollect ==
    \A k \in DOMAIN future :
        (pc = "collecting" /\ k \notin handled /\ k \in handled') =>
            IF future[k].state = "result"
              THEN /\ Len(results') = Len(results) + Len(chunks[k])
                   /\ SubSeq(results', 1, Len(results)) = results
                   /\ \A i \in DOMAIN chunks[k] :
                         PositionOf(results'[Len(results) + i])
                            = PointPosition(chunks[k][i])
              ELSE results' = results

\* C11: the result list is the concatenation of the successful chunks'
\* result lists in the order the loop received them: each collection
\* appends the chunk's records as one block in the order of its points, so
\* that results is always a sequence of whole blocks, in some order of the
\* chunks.
C11_ResultOrdering == []ResultsAreBlocks /\ [][AppendsOnCollect]_vars

\* C11 witness: a returned request of four chunks whose results begin with
\* the block of the last chunk and end with the block of the first.
C11_Witness ==
    /\ pc = "returned"
    /\ Len(chunks) = 4
    /\ Failed = {}
    /\ Len(chunks[1]) = 3
    /\ \A i \in 1..3 :
          /\ PositionOf(results[i]) = PointPosition(chunks[4][i])
          /\ PositionOf(results[9 + i]) = PointPosition(chunks[1][i])

-----------------------------------------------------------------------------
(* The service with its scheduling: the handler's thread keeps running     *)
(* (the loop takes a finished future, the handler returns once the loop is *)
(* done), and every worker eventually finishes its chunk, by returning or  *)
(* by raising.                                                             *)

WorkerFinish(k) == WorkerReturn(k) \/ WorkerRaise(k)

Fairness ==
    /\ \A k \in 1..MaxChunks : WF_vars(WorkerFinish(k))
    /\ WF_vars(\E k \in 1..MaxChunks : Collect(k))
    /\ WF_vars(Return)

FairSpec == Init /\ [][Next]_vars /\ Fairness

\* The futures whose worker has not finished.
Running == {k \in DOMAIN future : future[k].state = "running"}

\* The handler has returned only if every future has finished and been
\* collected.
ReturnedAfterAll ==
    pc = "returned" => (Running = {} /\ handled = DOMAIN future)

\* While a worker has not finished the handler cannot return, whatever the
\* other chunks did.
StuckWorkerBlocks ==
    (pc = "collecting" /\ Running # {}) => ~ENABLED Return

\* C12: the request returns only after every chunk has returned or raised
\* and while one worker is unfinished it cannot return; when every worker
\* eventually finishes, a request that has started eventually returns.
C12_WaitsForEveryChunk ==
    /\ []ReturnedAfterAll
    /\ []StuckWorkerBlocks
    /\ (pc = "collecting") ~> (pc = "returned")

\* C12 witness: all chunks but one have finished and been collected, the
\* last worker is still running and the handler waits.
C12_Witness ==
    /\ pc = "collecting"
    /\ Len(chunks) = 4
    /\ Cardinality(Running) = 1
    /\ Cardinality(handled) = 3
    /\ ~ENABLED Return

====
